---- MODULE Spec2Model ----
(***************************************************************************)
(* The review dashboard of src/dssprojectapp/app.py as a state machine.    *)
(* The script is rerun from its first line whenever the file-upload widget *)
(* changes; one action is one block of the script.  A run that raises      *)
(* (KeyError on a column the table does not have) stops where it raised.   *)
(*                                                                         *)
(* Representation.  A cell is a tuple: <<>> is NaN/NaT (missing), <<v>> a  *)
(* value.  A text is represented by the polarity, in hundredths, that the  *)
(* external scorer (TextBlob) gives it; a reviewer name by a number.       *)
(* Percentages are kept in tenths of a percent, the average rating in      *)
(* hundredths.                                                             *)
(***************************************************************************)
EXTENDS Integers, Sequences, FiniteSets

VARIABLES uploaded_file, pc, page, df, total_reviews, avg_rating,
          sentiment_counts, sentiment_pct, trend, top_users

vars == <<uploaded_file, pc, page, df, total_reviews, avg_rating,
          sentiment_counts, sentiment_pct, trend, top_users>>

-----------------------------------------------------------------------------
(* Values *)

NaN == <<>>

Unset == <<>>

Cell(v) == <<v>>

IsNaN(c) == c = NaN

Min(a, b) == IF a < b THEN a ELSE b

\* Polarity range of the scorer, [-1.0, 1.0], in hundredths.
MaxPolarity == 100

\* The thresholds 0.1 and -0.1 of the labelling lambda, in hundredths.
PositiveAbove == 10

NegativeBelow == -10

\* head(10) of the preview and of the Recent Reviews table.
HeadRows == 10

\* nlargest(10) of the reviewer counts.
TopUsers == 10

SecondsPerDay == 86400

ExpectedColumns == {"Text", "Score", "Summary", "ProfileName"}

AllColumns == ExpectedColumns \cup {"Time"}

RecentColumns == {"Summary", "Text", "sentiment", "Score", "date"}

-----------------------------------------------------------------------------
(* pandas and TextBlob, as far as the script uses them *)

\* str(x) of a Text cell followed by TextBlob(...).sentiment.polarity: a
\* missing text becomes the string "nan", whose polarity is 0.0.
Polarity(x) == IF IsNaN(x) THEN 0 ELSE x[1]

\* A score strictly between 0 and a threshold gets no label of the three.
SentimentGap(x) ==
    IF x > PositiveAbove THEN "Positive"
    ELSE IF x < NegativeBelow THEN "Negative"
    ELSE IF x = 0 THEN "Neutral" ELSE "Mixed"

\* The thresholds taken inclusively.
SentimentInclusive(x) ==
    IF x >= PositiveAbove THEN "Positive"
    ELSE IF x <= NegativeBelow THEN "Negative" ELSE "Neutral"

\* lambda x: 'Positive' if x > 0.1 else ('Negative' if x < -0.1 else 'Neutral')
Sentiment(x) ==
    IF x > PositiveAbove THEN "Positive"
    ELSE IF x < NegativeBelow THEN "Negative" ELSE "Neutral"

\* pd.to_datetime(t, unit='s'): UNIX seconds to a calendar date and time.
ToDatetime(t) ==
    LET days == t \div SecondsPerDay
        z    == days + 719468
        era  == z \div 146097
        doe  == z - era * 146097
        yoe  == (doe - doe \div 1460 + doe \div 36524 - doe \div 146096) \div 365
        doy  == doe - (365 * yoe + yoe \div 4 - yoe \div 100)
        mp   == (5 * doy + 2) \div 153
        d    == doy - (153 * mp + 2) \div 5 + 1
        m    == IF mp < 10 THEN mp + 3 ELSE mp - 9
        y    == yoe + era * 400 + (IF m <= 2 THEN 1 ELSE 0)
    IN  [year |-> y, month |-> m, day |-> d, second |-> t % SecondsPerDay]

\* Grouping by year instead of by month.
ToPeriodYear(d) == <<d.year, 1>>

\* .dt.to_period('M')
ToPeriod(d) == <<d.year, d.month>>

\* PeriodIndex.to_timestamp(): the first instant of the month.
ToTimestamp(p) == [year |-> p[1], month |-> p[2], day |-> 1, second |-> 0]

PeriodBefore(p, q) == p[1] < q[1] \/ (p[1] = q[1] /\ p[2] < q[2])

\* df[c] of a table that has column c, as a sequence of cells.
Column(d, c) == [i \in 1..Len(d.rows) |-> d.rows[i][c]]

\* df[c] = values: the table with column c added.
WithColumn(d, c, values) ==
    [columns |-> d.columns \cup {c},
     rows |-> [i \in 1..Len(d.rows) |->
                 [k \in d.columns \cup {c} |->
                    IF k = c THEN values[i] ELSE d.rows[i][k]]]]

\* df[cols] of a table that has the columns cols.
Project(d, cols) ==
    [columns |-> cols,
     rows |-> [i \in 1..Len(d.rows) |-> [k \in cols |-> d.rows[i][k]]]]

\* df.head(n)
DfHead(d, n) ==
    [columns |-> d.columns, rows |-> SubSeq(d.rows, 1, Min(n, Len(d.rows)))]

\* The distinct non-missing values of a sequence of cells, in the order of
\* their first appearance.
RECURSIVE Uniques(_)
Uniques(s) ==
    IF s = <<>> THEN <<>>
    ELSE LET front == Uniques(SubSeq(s, 1, Len(s) - 1))
             last  == s[Len(s)]
         IN  IF IsNaN(last) \/ \E i \in 1..Len(front) : front[i] = last[1]
             THEN front
             ELSE Append(front, last[1])

Occurrences(s, v) == Cardinality({i \in 1..Len(s) : s[i] = Cell(v)})

\* Insert entry e into a series sorted by count descending, after every
\* entry whose count is not smaller (the sort is stable).
RECURSIVE InsertDesc(_, _)
InsertDesc(s, e) ==
    IF s = <<>> THEN <<e>>
    ELSE IF s[Len(s)][2] >= e[2] THEN Append(s, e)
    ELSE Append(InsertDesc(SubSeq(s, 1, Len(s) - 1), e), s[Len(s)])

RECURSIVE SortDesc(_)
SortDesc(s) ==
    IF s = <<>> THEN <<>>
    ELSE InsertDesc(SortDesc(SubSeq(s, 1, Len(s) - 1)), s[Len(s)])

ValueCountsUnsorted(s) ==
    LET u == Uniques(s)
    IN  [i \in 1..Len(u) |-> <<u[i], Occurrences(s, u[i])>>]

\* Series.value_counts(): a series of <<value, count>>, missing values
\* dropped, sorted by count descending, equal counts in the order of first
\* appearance.
ValueCounts(s) == SortDesc(ValueCountsUnsorted(s))

\* One entry too many.
NLargestOffByOne(s, n) ==
    LET sorted == SortDesc(s)
    IN  SubSeq(sorted, 1, Min(n + 1, Len(sorted)))

\* Series.nlargest(n), keep='first'.
NLargest(s, n) ==
    LET sorted == SortDesc(s)
    IN  SubSeq(sorted, 1, Min(n, Len(sorted)))

\* Series.get(key, default)
SeriesGet(s, key, default) ==
    IF \E i \in 1..Len(s) : s[i][1] = key
    THEN s[CHOOSE i \in 1..Len(s) : s[i][1] = key][2]
    ELSE default

SeriesKeys(s) == {s[i][1] : i \in 1..Len(s)}

\* num/den rounded to the nearest integer, halves to the even neighbour
\* (round() of Python and of numpy); den > 0.
RoundHalfEven(num, den) ==
    LET q == num \div den
        r == num % den
    IN  IF 2 * r < den THEN q
        ELSE IF 2 * r > den THEN q + 1
        ELSE IF q % 2 = 0 THEN q ELSE q + 1

\* Rounded to whole percents.
PercentagesWhole(counts, total) ==
    [i \in 1..Len(counts) |->
        <<counts[i][1], 10 * RoundHalfEven(counts[i][2] * 100, total)>>]

\* (sentiment_counts / total_reviews * 100).round(1), in tenths of a percent.
\* The division is element-wise: it is done once per label that occurs.
Percentages(counts, total) ==
    [i \in 1..Len(counts) |->
        <<counts[i][1], RoundHalfEven(counts[i][2] * 1000, total)>>]

RECURSIVE SumCells(_)
SumCells(s) ==
    IF s = <<>> THEN 0
    ELSE SumCells(SubSeq(s, 1, Len(s) - 1))
         + (IF IsNaN(s[Len(s)]) THEN 0 ELSE s[Len(s)][1])

\* round(df['Score'].mean(), 2) in hundredths; the mean skips missing
\* ratings and is NaN when there is none.
MeanRounded(s) ==
    LET n == Cardinality({i \in 1..Len(s) : ~IsNaN(s[i])})
    IN  IF n = 0 THEN NaN ELSE Cell(RoundHalfEven(SumCells(s) * 100, n))

\* The rows that have a date (groupby drops the rows whose key is NaT).
Dated(d) == {i \in 1..Len(d.rows) : ~IsNaN(d.rows[i]["date"])}

PeriodOfRow(d, i) == ToPeriod(d.rows[i]["date"][1])

RECURSIVE SortPeriods(_)
SortPeriods(S) ==
    IF S = {} THEN <<>>
    ELSE LET first == CHOOSE p \in S : \A q \in S : ~PeriodBefore(q, p)
         IN  <<first>> \o SortPeriods(S \ {first})

\* df.groupby([df['date'].dt.to_period('M'), 'sentiment']).size()
\*   .unstack(fill_value=0), then trend.index.to_timestamp(): one entry
\* <<month start, [label |-> count]>> per month that occurs, months
\* ascending, a column per label that occurs among the dated rows.
TrendTable(d) ==
    LET months == SortPeriods({PeriodOfRow(d, i) : i \in Dated(d)})
        labels == {d.rows[i]["sentiment"][1] : i \in Dated(d)}
    IN  [k \in 1..Len(months) |->
           <<ToTimestamp(months[k]),
             [l \in labels |->
                Cardinality({i \in Dated(d) :
                               /\ PeriodOfRow(d, i) = months[k]
                               /\ d.rows[i]["sentiment"][1] = l})]>>]

\* px.histogram(df, x='Score', color='sentiment'): rows per rating and label.
RatingsBySentiment(d) ==
    LET pairs == {<<d.rows[i]["Score"], d.rows[i]["sentiment"][1]>> :
                     i \in 1..Len(d.rows)}
    IN  [p \in pairs |->
           Cardinality({i \in 1..Len(d.rows) :
                          <<d.rows[i]["Score"], d.rows[i]["sentiment"][1]>> = p})]

-----------------------------------------------------------------------------
(* The script *)

\* The script's namespace and output during one run.
Script ==
    [pc |-> pc, page |-> page, df |-> df, total_reviews |-> total_reviews,
     avg_rating |-> avg_rating, sentiment_counts |-> sentiment_counts,
     sentiment_pct |-> sentiment_pct, trend |-> trend, top_users |-> top_users]

Becomes(r) ==
    /\ pc' = r.pc
    /\ page' = r.page
    /\ df' = r.df
    /\ total_reviews' = r.total_reviews
    /\ avg_rating' = r.avg_rating
    /\ sentiment_counts' = r.sentiment_counts
    /\ sentiment_pct' = r.sentiment_pct
    /\ trend' = r.trend
    /\ top_users' = r.top_users

\* A Streamlit call that draws an element: it is appended to the page.
\* A chart call draws the data it is given, whatever they are.
Show(r, element) == [r EXCEPT !.page = Append(@, element)]

Goto(r, next) == [r EXCEPT !.pc = next]

\* An uncaught exception: Streamlit shows it and the run stops.
Raise(r, missing) ==
    [r EXCEPT !.pc = "failed",
              !.page = Append(@, <<"exception", "KeyError", missing>>)]

\* The namespace and the page of the run before are kept.
StaleRun == [Script EXCEPT !.pc = "start"]

\* Every rerun executes the script from its first line in a new namespace
\* and draws the page anew.
FreshRun ==
    [pc |-> "start", page |-> <<>>, df |-> Unset, total_reviews |-> Unset,
     avg_rating |-> Unset, sentiment_counts |-> Unset, sentiment_pct |-> Unset,
     trend |-> Unset, top_users |-> Unset]

\* Lines 10-26: title, sidebar with the uploader, and the branch on the file.
PageSetup(r, file) ==
    Goto(Show(r, <<"title">>), IF file # Unset THEN "load" ELSE "prompt")

\* Lines 27-28: df = pd.read_csv(uploaded_file); st.success(...)
Load(r, file) ==
    Goto(Show([r EXCEPT !.df = Cell(file[1])],
              <<"success", Len(file[1].rows)>>),
         "preview")

\* Lines 30-31
Preview(r) ==
    Goto(Show(r, <<"dataframe", DfHead(r.df[1], HeadRows)>>), "convert")

\* Lines 34-35
ConvertTime(r) ==
    LET d == r.df[1]
        dates == [i \in 1..Len(d.rows) |->
                    IF IsNaN(d.rows[i]["Time"]) THEN NaN
                    ELSE Cell(ToDatetime(d.rows[i]["Time"][1]))]
    IN  IF "Time" \in d.columns
        THEN Goto([r EXCEPT !.df = Cell(WithColumn(d, "date", dates))], "annotate")
        ELSE Goto(r, "annotate")

\* Lines 38-42
Annotate(r) ==
    LET r1 == Show(r, <<"info", "analyzing">>)
        d  == r.df[1]
        scores == [i \in 1..Len(d.rows) |-> Cell(Polarity(d.rows[i]["Text"]))]
        d1 == WithColumn(d, "sentiment_score", scores)
        labels == [i \in 1..Len(d.rows) |-> Cell(Sentiment(scores[i][1]))]
        d2 == WithColumn(d1, "sentiment", labels)
    IN  IF "Text" \notin d.columns THEN Raise(r1, {"Text"})
        ELSE Goto([r1 EXCEPT !.df = Cell(d2)], "summary")

\* Lines 47-58
SummaryMetrics(r) ==
    LET r1 == Show(r, <<"subheader", "Summary Metrics">>)
        d  == r.df[1]
        total  == Len(d.rows)
        avg    == MeanRounded(Column(d, "Score"))
        counts == ValueCounts(Column(d, "sentiment"))
        pct    == Percentages(counts, total)
        r2 == [r1 EXCEPT !.total_reviews = Cell(total),
                         !.avg_rating = Cell(avg),
                         !.sentiment_counts = Cell(counts),
                         !.sentiment_pct = Cell(pct)]
    IN  IF "Score" \notin d.columns
        THEN Raise([r1 EXCEPT !.total_reviews = Cell(total)], {"Score"})
        ELSE Goto(Show(r2, <<"metrics", total, avg,
                             SeriesGet(pct, "Positive", 0),
                             SeriesGet(pct, "Negative", 0)>>),
                  "pie")

\* Lines 63-75
PieChart(r) ==
    Goto(Show(Show(r, <<"markdown", "---">>),
              <<"plotly_chart", "Sentiment Breakdown", r.sentiment_counts[1]>>),
         "ratings")

\* Lines 78-87
RatingsDistribution(r) ==
    Goto(Show(r, <<"plotly_chart", "Ratings Distribution by Sentiment",
                   RatingsBySentiment(r.df[1])>>),
         "recent")

\* Lines 90-92
RecentReviews(r) ==
    LET r1 == Show(r, <<"write", "Recent Reviews">>)
        d  == r.df[1]
    IN  IF ~(RecentColumns \subseteq d.columns)
        THEN Raise(r1, RecentColumns \ d.columns)
        ELSE Goto(Show(r1, <<"dataframe",
                             DfHead(Project(d, RecentColumns), HeadRows)>>),
                  "trend")

\* Lines 97-113
SentimentTrend(r) ==
    LET r1 == Show(r, <<"markdown", "---">>)
        d  == r.df[1]
        t  == TrendTable(d)
    IN  IF "date" \in d.columns
        THEN Goto(Show([r1 EXCEPT !.trend = Cell(t)],
                       <<"plotly_chart", "Sentiment Trend Over Time", t>>),
                  "reviewers")
        ELSE Goto(Show(r1, <<"info", "No 'Time' column found">>), "reviewers")

\* Lines 116-126
TopReviewers(r) ==
    LET d == r.df[1]
        top == NLargest(ValueCounts(Column(d, "ProfileName")), TopUsers)
    IN  IF "ProfileName" \notin d.columns THEN Raise(r, {"ProfileName"})
        ELSE Goto(Show([r EXCEPT !.top_users = Cell(top)],
                       <<"plotly_chart", "Top 10 Reviewers", top>>),
                  "done")

\* Lines 128-129
Prompt(r) == Goto(Show(r, <<"info", "Upload your Amazon reviews CSV">>), "done")

-----------------------------------------------------------------------------
(* Uploaded files *)

\* Rows per file in the files with missing columns and missing cells.
MaxRows == 2

\* Rows per file in the files that vary the split between the labels.
MaxSplitRows == 10

\* Rows per file in the files that vary the dates.
MaxDatedRows == 3

\* Rows per file in the files whose dates are rotated.
MaxRotatedRows == 12

\* Distinct reviewers per file in the files that vary the reviewers.
MaxReviewers == 12

\* UNIX seconds of 2010-12-31 23:59:59, 2011-01-15 00:00:00,
\* 2011-01-31 23:59:59 and 2011-02-01 00:00:00 (UTC).
Dec31End == 14975 * SecondsPerDay - 1

Jan15 == 14989 * SecondsPerDay

Jan31End == 15006 * SecondsPerDay - 1

Feb01 == 15006 * SecondsPerDay

Row(text, score, summary, profile, time) ==
    [Text |-> text, Score |-> score, Summary |-> summary,
     ProfileName |-> profile, Time |-> time]

\* What pd.read_csv returns for a file with the header cols and these rows.
CsvFile(cols, rows) ==
    [columns |-> cols,
     rows |-> [i \in 1..Len(rows) |-> [c \in cols |-> rows[i][c]]]]

SeqsUpTo(S, n) == UNION {[1..k -> S] : k \in 0..n}

PlainRow(text) == Row(text, Cell(4), Cell("ok"), Cell(1), Cell(Jan15))

BaseRows ==
    { Row(Cell(80), Cell(5), Cell("great"), Cell(1), Cell(Jan15)),
      Row(Cell(-60), Cell(1), Cell("bad"), Cell(2), Cell(Feb01)),
      Row(NaN, Cell(3), NaN, NaN, NaN) }

\* Any non-empty subset of the columns, up to MaxRows rows, cells missing.
FilesColumns ==
    {CsvFile(cols, rows) :
        cols \in (SUBSET AllColumns) \ {{}}, rows \in SeqsUpTo(BaseRows, MaxRows)}

\* One review, of any polarity.
FilesPolarity ==
    {CsvFile(AllColumns, <<PlainRow(Cell(p))>>) : p \in -MaxPolarity..MaxPolarity}

\* a positive, b negative, c neutral reviews and d reviews without text.
SplitRows(a, b, c, d) ==
    [i \in 1..(a + b + c + d) |->
        IF i <= a THEN PlainRow(Cell(50))
        ELSE IF i <= a + b THEN PlainRow(Cell(-50))
        ELSE IF i <= a + b + c THEN PlainRow(Cell(5))
        ELSE PlainRow(NaN)]

FilesSplit ==
    {CsvFile(AllColumns, SplitRows(q[1], q[2], q[3], q[4])) :
        q \in {t \in (0..MaxSplitRows) \X (0..MaxSplitRows)
                      \X (0..MaxSplitRows) \X (0..MaxSplitRows) :
                 t[1] + t[2] + t[3] + t[4] <= MaxSplitRows}}

DatedRows ==
    { Row(Cell(50), Cell(5), Cell("a"), Cell(1), Cell(Dec31End)),
      Row(Cell(50), Cell(4), Cell("b"), Cell(2), Cell(Jan15)),
      Row(Cell(-50), Cell(1), Cell("c"), Cell(1), Cell(Jan31End)),
      Row(Cell(0), Cell(3), Cell("d"), Cell(3), Cell(Feb01)),
      Row(Cell(-50), Cell(2), Cell("e"), Cell(2), NaN) }

FilesDated ==
    {CsvFile(AllColumns, rows) : rows \in SeqsUpTo(DatedRows, MaxDatedRows)}

\* n reviews on n consecutive days, the file starting r days after the
\* oldest review and wrapping around.
RotatedRows(n, r) ==
    [i \in 1..n |->
        Row(Cell(50), Cell(5), Cell("ok"), Cell(i),
            Cell(Jan15 + ((i - 1 + r) % n) * SecondsPerDay))]

FilesRotated ==
    {CsvFile(AllColumns, RotatedRows(q[1], q[2])) :
        q \in {t \in (1..MaxRotatedRows) \X (0..MaxRotatedRows) : t[2] < t[1]}}

ReviewBy(profile) == Row(Cell(50), Cell(5), Cell("ok"), profile, Cell(Jan15))

\* Reviewers 1..k once each, z reviews without a reviewer, reviewers j..k
\* once more, and w more reviews by reviewer 1.
ReviewerRows(k, j, z, w) ==
    [i \in 1..k |-> ReviewBy(Cell(i))]
    \o [i \in 1..z |-> ReviewBy(NaN)]
    \o [i \in 1..(k + 1 - j) |-> ReviewBy(Cell(j + i - 1))]
    \o [i \in 1..w |-> ReviewBy(Cell(1))]

FilesReviewers ==
    {CsvFile(AllColumns, ReviewerRows(q[1], q[2], q[3], q[4])) :
        q \in {t \in (0..MaxReviewers) \X (1..(MaxReviewers + 1))
                      \X (0..1) \X (0..1) : t[2] <= t[1] + 1}}

Files == FilesColumns \cup FilesPolarity

-----------------------------------------------------------------------------
(* Actions *)

Init ==
    /\ uploaded_file = Unset
    /\ pc = "start"
    /\ page = <<>>
    /\ df = Unset
    /\ total_reviews = Unset
    /\ avg_rating = Unset
    /\ sentiment_counts = Unset
    /\ sentiment_pct = Unset
    /\ trend = Unset
    /\ top_users = Unset

Rerun == Becomes(FreshRun)

\* The user picks a file in the uploader: the script is rerun with it.
Upload(files) ==
    /\ uploaded_file = Unset \/ pc \in {"done", "failed"}
    /\ \E f \in files : uploaded_file' = Cell(f)
    /\ Rerun

\* The user removes the file: the script is rerun without one, whatever
\* the current run was doing.
RemoveFile ==
    /\ uploaded_file # Unset
    /\ uploaded_file' = Unset
    /\ Rerun

At(label) == pc = label /\ UNCHANGED uploaded_file

DoPageSetup == At("start") /\ Becomes(PageSetup(Script, uploaded_file))

DoLoad == At("load") /\ Becomes(Load(Script, uploaded_file))

DoPreview == At("preview") /\ Becomes(Preview(Script))

DoConvertTime == At("convert") /\ Becomes(ConvertTime(Script))

DoAnnotate == At("annotate") /\ Becomes(Annotate(Script))

DoSummaryMetrics == At("summary") /\ Becomes(SummaryMetrics(Script))

DoPieChart == At("pie") /\ Becomes(PieChart(Script))

DoRatingsDistribution == At("ratings") /\ Becomes(RatingsDistribution(Script))

DoRecentReviews == At("recent") /\ Becomes(RecentReviews(Script))

DoSentimentTrend == At("trend") /\ Becomes(SentimentTrend(Script))

DoTopReviewers == At("reviewers") /\ Becomes(TopReviewers(Script))

DoPrompt == At("prompt") /\ Becomes(Prompt(Script))

RunStep ==
    \/ DoPageSetup
    \/ DoLoad
    \/ DoPreview
    \/ DoConvertTime
    \/ DoAnnotate
    \/ DoSummaryMetrics
    \/ DoPieChart
    \/ DoRatingsDistribution
    \/ DoRecentReviews
    \/ DoSentimentTrend
    \/ DoTopReviewers
    \/ DoPrompt

Next == Upload(Files) \/ RemoveFile \/ RunStep

Spec == Init /\ [][Next]_vars

NextSplit == Upload(FilesSplit) \/ RemoveFile \/ RunStep

SpecSplit == Init /\ [][NextSplit]_vars

NextDated == Upload(FilesDated) \/ RemoveFile \/ RunStep

SpecDated == Init /\ [][NextDated]_vars

NextRotated == Upload(FilesRotated) \/ RemoveFile \/ RunStep

SpecRotated == Init /\ [][NextRotated]_vars

NextReviewers == Upload(FilesReviewers) \/ RemoveFile \/ RunStep

SpecReviewers == Init /\ [][NextReviewers]_vars

-----------------------------------------------------------------------------
(* Properties *)

Labels == {"Positive", "Negative", "Neutral"}

HasFile == uploaded_file # Unset

File == uploaded_file[1]

Table == df[1]

Annotated == df # Unset /\ "sentiment" \in Table.columns

\* The element drawn right after the first element e of the page.
ElementAfter(e) ==
    page[1 + CHOOSE i \in 1..Len(page) : page[i] = e]

Drawn(e) == \E i \in 1..Len(page) : page[i] = e

RECURSIVE SumOver(_, _)
SumOver(f, S) ==
    IF S = {} THEN 0
    ELSE LET x == CHOOSE y \in S : TRUE IN f[x] + SumOver(f, S \ {x})

\* C1: every polarity score the annotator produced is labelled Positive
\* when above 0.1, Negative when below -0.1 and Neutral otherwise, 0.1 and
\* -0.1 themselves included; the label is one of the three.
C1_LabelByThreshold ==
    Annotated =>
        \A i \in 1..Len(Table.rows) :
            LET s == Table.rows[i]["sentiment_score"][1]
                l == Table.rows[i]["sentiment"][1]
            IN  /\ l \in Labels
                /\ s > 10 => l = "Positive"
                /\ s < -10 => l = "Negative"
                /\ (s >= -10 /\ s <= 10) => l = "Neutral"

C1_Witness ==
    /\ Annotated
    /\ \E i \in 1..Len(Table.rows) :
          /\ Table.rows[i]["sentiment_score"] = Cell(10)
          /\ Table.rows[i]["sentiment"] = Cell("Neutral")

\* C2: for every uploaded table with a Text column, rows without text
\* included, the Positive, Negative and Neutral counts of sentiment_counts
\* sum to total_reviews, which is the number of rows of the table.
C2_CountsSumToTotal ==
    sentiment_counts # Unset =>
        /\ total_reviews[1] = Len(File.rows)
        /\ SeriesGet(sentiment_counts[1], "Positive", 0)
             + SeriesGet(sentiment_counts[1], "Negative", 0)
             + SeriesGet(sentiment_counts[1], "Neutral", 0) = total_reviews[1]

C2_Witness ==
    /\ sentiment_counts # Unset
    /\ SeriesKeys(sentiment_counts[1]) = Labels
    /\ \E i \in 1..Len(File.rows) : IsNaN(File.rows[i]["Text"])
    /\ \E i \in 1..Len(File.rows) : File.rows[i]["Text"] = Cell(5)

\* C3: with no Time column and every other expected column present, no
\* step of the run fails, and from the trend section on the page shows the
\* fallback message.
C3_NoTimeFallback ==
    (HasFile /\ File.columns = ExpectedColumns) =>
        /\ pc # "failed"
        /\ pc \in {"reviewers", "done"} =>
              Drawn(<<"info", "No 'Time' column found">>)

DateBefore(a, b) ==
    \/ a.year < b.year
    \/ a.year = b.year /\ a.month < b.month
    \/ a.year = b.year /\ a.month = b.month /\ a.day < b.day
    \/ a.year = b.year /\ a.month = b.month /\ a.day = b.day
         /\ a.second < b.second

RecentShown == ElementAfter(<<"write", "Recent Reviews">>)[2]

\* C4: for a table with a Time column and more than 10 rows, in any row
\* order, the Recent Reviews table shows the 10 rows with the latest dates.
C4_RecentAreLatest ==
    (HasFile /\ pc \in {"trend", "reviewers", "done"}
       /\ "Time" \in File.columns /\ Len(File.rows) > 10) =>
        LET shown == {RecentShown.rows[i]["date"][1] :
                         i \in 1..Len(RecentShown.rows)}
            all   == {Table.rows[i]["date"][1] : i \in 1..Len(Table.rows)}
        IN  /\ Len(RecentShown.rows) = 10
            /\ \A s \in shown : \A o \in all \ shown : DateBefore(o, s)

\* The Recent Reviews table shows the first 10 rows of the file.
C4_RecentAreFirst ==
    (HasFile /\ pc \in {"trend", "reviewers", "done"}) =>
        /\ Len(RecentShown.rows) = Min(10, Len(File.rows))
        /\ \A i \in 1..Len(RecentShown.rows) :
              /\ RecentShown.rows[i]["Summary"] = File.rows[i]["Summary"]
              /\ RecentShown.rows[i]["Text"] = File.rows[i]["Text"]
              /\ RecentShown.rows[i]["Score"] = File.rows[i]["Score"]

StepOrder ==
    <<"start", "load", "preview", "convert", "annotate", "summary", "pie",
      "ratings", "recent", "trend", "reviewers", "done">>

StepIndex(label) == CHOOSE i \in 1..Len(StepOrder) : StepOrder[i] = label

FirstReader(column) ==
    CASE column = "Text" -> "annotate"
      [] column = "Score" -> "summary"
      [] column = "Summary" -> "recent"
      [] column = "ProfileName" -> "reviewers"

\* The step a failed run stopped in, read off the last element drawn
\* before the exception.
FailedIn ==
    LET last == page[Len(page) - 1]
    IN  IF last = <<"info", "analyzing">> THEN "annotate"
        ELSE IF last = <<"subheader", "Summary Metrics">> THEN "summary"
        ELSE IF last = <<"write", "Recent Reviews">> THEN "recent"
        ELSE "reviewers"

\* The first step that reads a column the file lacks.
EarliestReader(missing) ==
    CHOOSE s \in {FirstReader(c) : c \in missing} :
        \A c \in missing : StepIndex(s) <= StepIndex(FirstReader(c))

\* C5: when an expected column is absent the run fails exactly at the first
\* step that reads it: the run reaches that step (every step before it
\* completes), fails in it, and never gets past it.
C5_FailsAtFirstRead ==
    (HasFile /\ ExpectedColumns \ File.columns # {}) =>
        LET reader == EarliestReader(ExpectedColumns \ File.columns)
        IN  /\ pc = "failed" => FailedIn = reader
            /\ pc # "failed" => StepIndex(pc) <= StepIndex(reader)

\* The same for the files that have a Time column.
C5_FailsAtFirstReadWithTime ==
    (HasFile /\ "Time" \in File.columns) => C5_FailsAtFirstRead

PercentOf(label) == SeriesGet(sentiment_pct[1], label, 0)

\* C6: for a non-empty dataset the three percentages, each rounded to one
\* decimal and 0 for a label without rows, sum to within 0.3 of 100.0.
C6_PercentagesSum ==
    (sentiment_pct # Unset /\ total_reviews[1] >= 1) =>
        LET sum == PercentOf("Positive") + PercentOf("Negative")
                     + PercentOf("Neutral")
        IN  sum >= 1000 - 3 /\ sum <= 1000 + 3

C6_Witness ==
    /\ sentiment_pct # Unset
    /\ total_reviews[1] >= 1
    /\ PercentOf("Positive") + PercentOf("Negative") + PercentOf("Neutral")
         # 1000

ReviewsBy(v) ==
    Cardinality({i \in 1..Len(File.rows) : File.rows[i]["ProfileName"] = Cell(v)})

Reviewers ==
    {File.rows[i]["ProfileName"][1] :
        i \in {j \in 1..Len(File.rows) : ~IsNaN(File.rows[j]["ProfileName"])}}

\* C7: the top-reviewer list has at most 10 entries, is sorted by count
\* descending, gives each reviewer the number of rows that carry the
\* reviewer, and leaves out no reviewer with a strictly larger count than
\* one it holds.
C7_TopReviewers ==
    top_users # Unset =>
        LET top == top_users[1]
        IN  /\ Len(top) <= 10
            /\ \A i \in 1..Len(top) :
                  /\ top[i][1] \in Reviewers
                  /\ top[i][2] = ReviewsBy(top[i][1])
                  /\ \A j \in 1..Len(top) : i < j => top[i][2] >= top[j][2]
            /\ \A v \in Reviewers \ SeriesKeys(top) :
                  \A i \in 1..Len(top) : ReviewsBy(v) <= top[i][2]

C7_Witness ==
    /\ top_users # Unset
    /\ Len(top_users[1]) = 10
    /\ Cardinality(Reviewers) > 10
    /\ top_users[1][1][2] > top_users[1][10][2]
    /\ \E i \in 1..Len(File.rows) : IsNaN(File.rows[i]["ProfileName"])
    /\ \E v \in Reviewers \ SeriesKeys(top_users[1]) :
          ReviewsBy(v) = top_users[1][10][2]

EmptyUpload == HasFile /\ File.columns = AllColumns /\ File.rows = <<>>

\* C8, as far as the statements of the script decide it: for a file with
\* every column and zero rows the loader reports 0 rows, total_reviews is
\* 0, the element-wise percentage computation divides nothing, the Positive
\* and Negative percentages shown are the 0 default, and no statement of
\* the script raises on a missing column.  Whether the charting calls
\* accept empty data is decided inside plotly, which is not modelled.
C8_EmptyFile ==
    EmptyUpload =>
        /\ pc # "failed"
        /\ df # Unset => (Table.rows = <<>> /\ Drawn(<<"success", 0>>))
        /\ total_reviews # Unset => total_reviews[1] = 0
        /\ sentiment_pct # Unset =>
              /\ sentiment_pct[1] = <<>>
              /\ Drawn(<<"metrics", 0, NaN, 0, 0>>)

C8_Witness == EmptyUpload /\ pc = "done" /\ Len(page) = 14

Blank ==
    [pc |-> "start", page |-> <<>>, df |-> <<>>, total_reviews |-> <<>>,
     avg_rating |-> <<>>, sentiment_counts |-> <<>>, sentiment_pct |-> <<>>,
     trend |-> <<>>, top_users |-> <<>>]

StepOf(r, file) ==
    CASE r.pc = "start" -> PageSetup(r, file)
      [] r.pc = "load" -> Load(r, file)
      [] r.pc = "preview" -> Preview(r)
      [] r.pc = "convert" -> ConvertTime(r)
      [] r.pc = "annotate" -> Annotate(r)
      [] r.pc = "summary" -> SummaryMetrics(r)
      [] r.pc = "pie" -> PieChart(r)
      [] r.pc = "ratings" -> RatingsDistribution(r)
      [] r.pc = "recent" -> RecentReviews(r)
      [] r.pc = "trend" -> SentimentTrend(r)
      [] r.pc = "reviewers" -> TopReviewers(r)
      [] r.pc = "prompt" -> Prompt(r)
      [] OTHER -> r

\* The script after n steps of a run on file that started from nothing.
RECURSIVE RunFromScratch(_, _)
RunFromScratch(file, n) ==
    IF n = 0 THEN Blank ELSE StepOf(RunFromScratch(file, n - 1), file)

\* C9: after any sequence of runs, the namespace and the page are those of
\* a run on the current file alone that started from nothing; with no file
\* the finished page holds the title and the upload prompt only.
C9_LatestFileOnly ==
    /\ \E n \in 0..Len(StepOrder) : Script = RunFromScratch(uploaded_file, n)
    /\ (~HasFile /\ pc = "done") =>
          page = <<(<<"title">>), <<"info", "Upload your Amazon reviews CSV">>>>

C9_Witness ==
    /\ HasFile
    /\ pc = "done"
    /\ Len(File.rows) = 2
    /\ File.rows[1] # File.rows[2]
    /\ top_users # Unset

\* The months of the dates of the uploaded files, by the calendar.
MonthOfTime(t) ==
    CASE t = Dec31End -> <<2010, 12>>
      [] t = Jan15 -> <<2011, 1>>
      [] t = Jan31End -> <<2011, 1>>
      [] t = Feb01 -> <<2011, 2>>

WithTime == {i \in 1..Len(File.rows) : ~IsNaN(File.rows[i]["Time"])}

InMonth(m) == {i \in WithTime : MonthOfTime(File.rows[i]["Time"][1]) = m}

MonthCount(entry) ==
    SumOver([l \in Labels |->
               IF l \in DOMAIN entry[2] THEN entry[2][l] ELSE 0], Labels)

\* C10: the monthly trend has one entry per calendar month with a review
\* and no other; the per-label counts of a month, 0 for a label without a
\* review in it, sum to the reviews dated in the month, and over all months
\* to the rows that have a date.
C10_MonthlyTrend ==
    trend # Unset =>
        LET t == trend[1]
            months == {MonthOfTime(File.rows[i]["Time"][1]) : i \in WithTime}
        IN  /\ Len(t) = Cardinality(months)
            /\ {<<t[k][1].year, t[k][1].month>> : k \in 1..Len(t)} = months
            /\ \A k \in 1..Len(t) :
                  MonthCount(t[k])
                    = Cardinality(InMonth(<<t[k][1].year, t[k][1].month>>))
            /\ SumOver([k \in 1..Len(t) |-> MonthCount(t[k])], 1..Len(t))
                 = Cardinality(WithTime)

C10_Witness ==
    /\ trend # Unset
    /\ Len(trend[1]) = 2
    /\ Len(File.rows) = 3
    /\ Cardinality(WithTime) = 2
    /\ \E k \in 1..2 : \E l \in DOMAIN trend[1][k][2] : trend[1][k][2][l] = 0

====
